---------------------------- MODULE Spec2Model ----------------------------
(***************************************************************************)
(* A model of src/activities/tool_activities.py: the response sanitizer    *)
(* (sanitize_json_response), the JSON re-parse (parse_json_response), the  *)
(* provider dispatch (agent_toolPlanner and the five prompt_llm_*          *)
(* adapters) and the prompt validator (agent_validatePrompt).              *)
(*                                                                         *)
(* Text is a sequence of one-character strings.  Positions are 0-based, as *)
(* in the source, and -1 is str.find's "not found".                        *)
(***************************************************************************)
EXTENDS Integers, Sequences, FiniteSets, TLC

(***************************************************************************)
(* Python str primitives used by the source.                               *)
(***************************************************************************)

\* s[i] for a 0-based index i.
At(s, i) == s[i + 1]

\* The slice s[a:b] for 0 <= a, with b clipped to len(s).
Slice(s, a, b) ==
    LET e == IF b > Len(s) THEN Len(s) ELSE b
    IN IF a >= e THEN << >> ELSE SubSeq(s, a + 1, e)

\* Whether sub occurs in s at 0-based position i.
OccursAt(s, sub, i) ==
    /\ i >= 0
    /\ i + Len(sub) <= Len(s)
    /\ \A k \in 1..Len(sub) : s[i + k] = sub[k]

\* str.find(sub, start): the lowest position >= start where sub occurs, or -1.
Find(s, sub, start) ==
    LET hits == {i \in start..(Len(s) - Len(sub)) : OccursAt(s, sub, i)}
    IN IF hits = {} THEN -1
       ELSE CHOOSE i \in hits : \A j \in hits : i <= j

\* str.rfind(sub): the highest position where sub occurs, or -1.
RFind(s, sub) ==
    LET hits == {i \in 0..(Len(s) - Len(sub)) : OccursAt(s, sub, i)}
    IN IF hits = {} THEN -1
       ELSE CHOOSE i \in hits : \A j \in hits : i >= j

\* The operator `sub in s`.
Contains(s, sub) == Find(s, sub, 0) # -1

\* The characters str.strip() removes (those of them in the model's alphabet).
Whitespace == {" ", "\n", "\t", "\r"}

\* str.strip(): s without its leading and trailing whitespace.
Strip(s) ==
    LET keep == {i \in 1..Len(s) : s[i] \notin Whitespace}
    IN IF keep = {} THEN << >>
       ELSE LET lo == CHOOSE i \in keep : \A j \in keep : i <= j
                hi == CHOOSE i \in keep : \A j \in keep : i >= j
            IN SubSeq(s, lo, hi)

(***************************************************************************)
(* json.loads.  A JSON value is a record [t, v]: t is its kind and v its   *)
(* content.  A scan result is [ok, val, pos]: pos is the 0-based position  *)
(* after the scanned text.                                                 *)
(***************************************************************************)

JNone == [t |-> "none", v |-> 0]
JLit(name) == [t |-> "lit", v |-> name]
JNum(n) == [t |-> "num", v |-> n]
JStr(chars) == [t |-> "str", v |-> chars]
JArr(items) == [t |-> "arr", v |-> items]
JObj(members) == [t |-> "obj", v |-> members]
EmptyMembers == [k \in {} |-> JNone]

ScanFail == [ok |-> FALSE, val |-> JNone, pos |-> 0]
ScanOk(val, pos) == [ok |-> TRUE, val |-> val, pos |-> pos]

\* json.decoder.WHITESPACE: the characters skipped between tokens.
JsonWhitespace == {" ", "\t", "\n", "\r"}

RECURSIVE SkipWs(_, _)
SkipWs(s, i) ==
    IF i < Len(s) /\ At(s, i) \in JsonWhitespace THEN SkipWs(s, i + 1) ELSE i

Digits == {"0", "1", "2", "3", "4", "5", "6", "7", "8", "9"}

DigitVal(c) ==
    CASE c = "0" -> 0 [] c = "1" -> 1 [] c = "2" -> 2 [] c = "3" -> 3
      [] c = "4" -> 4 [] c = "5" -> 5 [] c = "6" -> 6 [] c = "7" -> 7
      [] c = "8" -> 8 [] c = "9" -> 9

\* The position after the run of digits that starts at i.
RECURSIVE DigitsEnd(_, _)
DigitsEnd(s, i) ==
    IF i < Len(s) /\ At(s, i) \in Digits THEN DigitsEnd(s, i + 1) ELSE i

\* The decimal value of the digits s[a:b].
RECURSIVE DigitsVal(_, _, _)
DigitsVal(s, a, b) ==
    IF a >= b THEN 0 ELSE DigitsVal(s, a, b - 1) * 10 + DigitVal(At(s, b - 1))

RECURSIVE Pow10(_)
Pow10(k) == IF k = 0 THEN 1 ELSE 10 * Pow10(k - 1)

\* json.scanner NUMBER_RE at i, for the unsigned integers (0|[1-9]\d*) with
\* an optional exponent [eE]\d+ that the alphabet can spell.
ScanNumber(s, i) ==
    LET intEnd == IF At(s, i) = "0" THEN i + 1 ELSE DigitsEnd(s, i)
        int == DigitsVal(s, i, intEnd)
        hasExp == /\ intEnd + 1 < Len(s)
                  /\ At(s, intEnd) \in {"e", "E"}
                  /\ At(s, intEnd + 1) \in Digits
        expEnd == DigitsEnd(s, intEnd + 1)
    IN IF hasExp
       THEN ScanOk(JNum(int * Pow10(DigitsVal(s, intEnd + 1, expEnd))), expEnd)
       ELSE ScanOk(JNum(int), intEnd)

\* json.decoder.py_scanstring from the position after the opening quote, in
\* strict mode: a control character inside the string is an error.  The
\* alphabet holds no backslash, so an escape is "Invalid \escape".
ControlChars == {"\n", "\t", "\r"}

ScanString(s, i) ==
    LET close == Find(s, <<"\"">>, i)
    IN IF close = -1 THEN ScanFail
       ELSE LET chars == Slice(s, i, close)
            IN IF \E k \in 1..Len(chars) : chars[k] \in ControlChars \cup {"\\"}
               THEN ScanFail
               ELSE ScanOk(JStr(chars), close + 1)

RECURSIVE ScanValue(_, _)
RECURSIVE ScanMembers(_, _, _)
RECURSIVE ScanItems(_, _, _)

\* json.decoder.JSONObject after the opening brace; i is at a key's opening
\* quote's position and members holds the pairs scanned so far (a repeated
\* key keeps its last value, as dict() does).
ScanMembers(s, i, members) ==
    IF ~(i < Len(s) /\ At(s, i) = "\"") THEN ScanFail
    ELSE LET key == ScanString(s, i + 1)
         IN IF ~key.ok THEN ScanFail
            ELSE LET colon == SkipWs(s, key.pos)
                 IN IF ~(colon < Len(s) /\ At(s, colon) = ":") THEN ScanFail
                    ELSE LET val == ScanValue(s, SkipWs(s, colon + 1))
                         IN IF ~val.ok THEN ScanFail
                            ELSE LET more == [k \in DOMAIN members \cup {key.val.v} |->
                                                 IF k = key.val.v THEN val.val
                                                 ELSE members[k]]
                                     next == SkipWs(s, val.pos)
                                 IN IF next >= Len(s) THEN ScanFail
                                    ELSE IF At(s, next) = "}"
                                    THEN ScanOk(JObj(more), next + 1)
                                    ELSE IF At(s, next) = ","
                                    THEN ScanMembers(s, SkipWs(s, next + 1), more)
                                    ELSE ScanFail

\* json.decoder.JSONArray after the opening bracket; i is at a value.
ScanItems(s, i, items) ==
    LET val == ScanValue(s, i)
    IN IF ~val.ok THEN ScanFail
       ELSE LET more == Append(items, val.val)
                next == SkipWs(s, val.pos)
            IN IF next >= Len(s) THEN ScanFail
               ELSE IF At(s, next) = "]" THEN ScanOk(JArr(more), next + 1)
               ELSE IF At(s, next) = "," THEN ScanItems(s, SkipWs(s, next + 1), more)
               ELSE ScanFail

\* json.scanner.py_make_scanner's _scan_once at position i.
ScanValue(s, i) ==
    IF i >= Len(s) THEN ScanFail
    ELSE LET c == At(s, i)
         IN IF c = "\"" THEN ScanString(s, i + 1)
            ELSE IF c = "{"
            THEN LET j == SkipWs(s, i + 1)
                 IN IF j < Len(s) /\ At(s, j) = "}"
                    THEN ScanOk(JObj(EmptyMembers), j + 1)
                    ELSE ScanMembers(s, j, EmptyMembers)
            ELSE IF c = "["
            THEN LET j == SkipWs(s, i + 1)
                 IN IF j < Len(s) /\ At(s, j) = "]"
                    THEN ScanOk(JArr(<< >>), j + 1)
                    ELSE ScanItems(s, j, << >>)
            ELSE IF c = "n" /\ Slice(s, i, i + 4) = <<"n", "u", "l", "l">>
            THEN ScanOk(JLit("null"), i + 4)
            ELSE IF c = "t" /\ Slice(s, i, i + 4) = <<"t", "r", "u", "e">>
            THEN ScanOk(JLit("true"), i + 4)
            ELSE IF c = "f" /\ Slice(s, i, i + 5) = <<"f", "a", "l", "s", "e">>
            THEN ScanOk(JLit("false"), i + 5)
            ELSE IF c \in Digits THEN ScanNumber(s, i)
            ELSE ScanFail

\* json.loads(s): JSONDecoder.decode: one value between optional whitespace,
\* and nothing after it ("Extra data" otherwise).  ok = FALSE is
\* json.JSONDecodeError.
JsonLoads(s) ==
    LET r == ScanValue(s, SkipWs(s, 0))
    IN IF r.ok /\ SkipWs(s, r.pos) = Len(s) THEN r ELSE ScanFail

(***************************************************************************)
(* The alphabet.  SANY cannot read a backtick inside a string literal, so  *)
(* the backtick character (U+0060) is written Tick.                        *)
(***************************************************************************)
Tick == "BACKTICK"

\* sanitize_json_response's two markers (the second is a prefix of the first).
start_marker == <<Tick, Tick, Tick, "j", "s", "o", "n">>
end_marker == <<Tick, Tick, Tick>>

(***************************************************************************)
(* sanitize_json_response.                                                 *)
(***************************************************************************)

\* What a function call gives: a returned value or a raised exception.
Return(value) == [ok |-> TRUE, value |-> value, error |-> "none"]
Raise(kind) == [ok |-> FALSE, value |-> << >>, error |-> kind]

\* The extraction step's outcome: json_str (none = TRUE is Python's None),
\* the rule that ran, and whether str.index raised ValueError.
Candidate(rule, text) == [raised |-> FALSE, rule |-> rule, none |-> FALSE, text |-> text]
NoCandidate(rule) == [raised |-> FALSE, rule |-> rule, none |-> TRUE, text |-> << >>]
IndexRaised(rule) == [raised |-> TRUE, rule |-> rule, none |-> TRUE, text |-> << >>]

\* Mutant: the closing marker is searched from the start of the text.
ExtractCandidate_EndFromStart(response_content) ==
    IF Contains(response_content, start_marker) /\ Contains(response_content, end_marker)
    THEN LET json_start == Find(response_content, start_marker, 0) + Len(start_marker)
             json_end == Find(response_content, end_marker, 0)
         IN IF json_end = -1 THEN IndexRaised("fenced")
            ELSE Candidate("fenced", Strip(Slice(response_content, json_start, json_end)))
    ELSE LET json_start == Find(response_content, <<"{">>, 0)
             json_end == RFind(response_content, <<"}">>)
         IN IF json_start # -1 /\ json_end # -1 /\ json_start < json_end
            THEN Candidate("braces", Strip(Slice(response_content, json_start, json_end + 1)))
            ELSE NoCandidate("braces")

\* Mutant: the brace span leaves out its closing brace.
ExtractCandidate_ExclusiveEnd(response_content) ==
    IF Contains(response_content, start_marker) /\ Contains(response_content, end_marker)
    THEN LET json_start == Find(response_content, start_marker, 0) + Len(start_marker)
             json_end == Find(response_content, end_marker, json_start)
         IN IF json_end = -1 THEN IndexRaised("fenced")
            ELSE Candidate("fenced", Strip(Slice(response_content, json_start, json_end)))
    ELSE LET json_start == Find(response_content, <<"{">>, 0)
             json_end == RFind(response_content, <<"}">>)
         IN IF json_start # -1 /\ json_end # -1 /\ json_start < json_end
            THEN Candidate("braces", Strip(Slice(response_content, json_start, json_end)))
            ELSE NoCandidate("braces")

\* Mutant: the brace rule takes the whole text when it finds no span.
ExtractCandidate_WholeText(response_content) ==
    IF Contains(response_content, start_marker) /\ Contains(response_content, end_marker)
    THEN LET json_start == Find(response_content, start_marker, 0) + Len(start_marker)
             json_end == Find(response_content, end_marker, json_start)
         IN IF json_end = -1 THEN IndexRaised("fenced")
            ELSE Candidate("fenced", Strip(Slice(response_content, json_start, json_end)))
    ELSE LET json_start == Find(response_content, <<"{">>, 0)
             json_end == RFind(response_content, <<"}">>)
         IN IF json_start # -1 /\ json_end # -1 /\ json_start < json_end
            THEN Candidate("braces", Strip(Slice(response_content, json_start, json_end + 1)))
            ELSE Candidate("braces", Strip(response_content))

\* Lines 257-275: "Case 1" when both markers are `in` the text (the second
\* test is implied by the first, end_marker being a prefix of start_marker),
\* else "Case 2".  str.index raises ValueError when it finds no end_marker
\* at or after json_start.
ExtractCandidate(response_content) ==
    IF Contains(response_content, start_marker) /\ Contains(response_content, end_marker)
    THEN LET json_start == Find(response_content, start_marker, 0) + Len(start_marker)
             json_end == Find(response_content, end_marker, json_start)
         IN IF json_end = -1 THEN IndexRaised("fenced")
            ELSE Candidate("fenced", Strip(Slice(response_content, json_start, json_end)))
    ELSE LET json_start == Find(response_content, <<"{">>, 0)
             json_end == RFind(response_content, <<"}">>)
         IN IF json_start # -1 /\ json_end # -1 /\ json_start < json_end
            THEN Candidate("braces", Strip(Slice(response_content, json_start, json_end + 1)))
            ELSE NoCandidate("braces")

\* Mutant: the candidate is returned without the json.loads check.
ValidateCandidate_Unchecked(cand) ==
    IF cand.raised THEN Raise("ValueError")
    ELSE IF cand.none \/ cand.text = << >> THEN Raise("ValueError")
    ELSE Return(cand.text)

\* Lines 277-293, given json_str.  Every exception that leaves the function
\* is a ValueError: the one str.index raised (re-raised by `except
\* Exception`), the one line 283 raises for a json_str that is None or
\* empty, and the one line 288 raises for a json.JSONDecodeError.
ValidateCandidate(cand) ==
    IF cand.raised THEN Raise("ValueError")
    ELSE IF cand.none \/ cand.text = << >> THEN Raise("ValueError")
    ELSE IF ~JsonLoads(cand.text).ok THEN Raise("ValueError")
    ELSE Return(cand.text)

\* Lines 247-293.
sanitize_json_response(response_content) ==
    ValidateCandidate(ExtractCandidate(response_content))

\* Lines 105-114.  `raise json.JSONDecodeError` names the class without its
\* three arguments, so what is raised is a TypeError.
parse_json_response(response_content) ==
    LET r == JsonLoads(response_content)
    IN IF r.ok THEN [ok |-> TRUE, value |-> r.val, error |-> "none"]
       ELSE [ok |-> FALSE, value |-> JNone, error |-> "TypeError"]

(***************************************************************************)
(* The process environment and the provider selection.                     *)
(***************************************************************************)

\* An environment variable: unset, or set to a text.
Unset == [set |-> FALSE, value |-> << >>]
SetTo(text) == [set |-> TRUE, value |-> text]

\* os.environ.get(name, default) where default is a text.
EnvGet(var, default) == IF var.set THEN var.value ELSE default

UpperLetters ==
    <<"A", "B", "C", "D", "E", "F", "G", "H", "I", "J", "K", "L", "M",
      "N", "O", "P", "Q", "R", "S", "T", "U", "V", "W", "X", "Y", "Z">>
LowerLetters ==
    <<"a", "b", "c", "d", "e", "f", "g", "h", "i", "j", "k", "l", "m",
      "n", "o", "p", "q", "r", "s", "t", "u", "v", "w", "x", "y", "z">>

\* str.lower().
Lower(s) ==
    [i \in 1..Len(s) |->
        IF \E k \in 1..26 : UpperLetters[k] = s[i]
        THEN LowerLetters[CHOOSE k \in 1..26 : UpperLetters[k] = s[i]]
        ELSE s[i]]

Ollama == <<"o", "l", "l", "a", "m", "a">>
Google == <<"g", "o", "o", "g", "l", "e">>
Anthropic == <<"a", "n", "t", "h", "r", "o", "p", "i", "c">>
Deepseek == <<"d", "e", "e", "p", "s", "e", "e", "k">>
Openai == <<"o", "p", "e", "n", "a", "i">>

\* Lines 90-103: the adapter agent_toolPlanner calls.
SelectAdapter(LLM_PROVIDER) ==
    LET llm_provider == Lower(EnvGet(LLM_PROVIDER, Openai))
    IN IF llm_provider = Ollama THEN "prompt_llm_ollama"
       ELSE IF llm_provider = Google THEN "prompt_llm_google"
       ELSE IF llm_provider = Anthropic THEN "prompt_llm_anthropic"
       ELSE IF llm_provider = Deepseek THEN "prompt_llm_deepseek"
       ELSE "prompt_llm_openai"

\* Lines 171-173 and 192-196: the credential an adapter refuses to run
\* without (`if not api_key`: an unset or an empty value).
CredentialMissing(adapter, environ) ==
    \/ /\ adapter = "prompt_llm_google"
       /\ EnvGet(environ.GOOGLE_API_KEY, << >>) = << >>
    \/ /\ adapter = "prompt_llm_anthropic"
       /\ EnvGet(environ.ANTHROPIC_API_KEY, << >>) = << >>

\* Mutant: the adapter does not configure the SDK.
GenaiConfigure_Skipped(current, api_key, caller) == current

\* Line 175: genai.configure(api_key=api_key) sets the SDK's process-wide
\* configuration; by records the configuring call.
GenaiConfigure(current, api_key, caller) == [api_key |-> api_key, by |-> caller]

(***************************************************************************)
(* The part of every prompt_llm_* adapter after its network call, and the  *)
(* validator's mapping.                                                    *)
(***************************************************************************)

\* Mutant: a reply that cannot be sanitized gives an empty mapping.
ParseSanitized_Masking(sanitized) ==
    IF ~sanitized.ok
    THEN [ok |-> TRUE, value |-> JObj(EmptyMembers), error |-> "none"]
    ELSE parse_json_response(sanitized.value)

\* Line 144 (and 168, 189, 220, 245), given what line 142 got: an exception
\* of sanitize_json_response leaves the adapter, its text is parsed.
ParseSanitized(sanitized) ==
    IF ~sanitized.ok
    THEN [ok |-> FALSE, value |-> JNone, error |-> sanitized.error]
    ELSE parse_json_response(sanitized.value)

\* Lines 141-144 (and 165-168, 186-189, 217-220, 242-245): sanitize, then
\* parse the sanitized text.
AdapterResult(response_content) ==
    ParseSanitized(sanitize_json_response(response_content))

validationResult == <<"v", "a", "l", "i", "d", "a", "t", "i", "o", "n",
                      "R", "e", "s", "u", "l", "t">>
validationFailedReason == <<"v", "a", "l", "i", "d", "a", "t", "i", "o", "n",
                            "F", "a", "i", "l", "e", "d", "R", "e", "a", "s", "o", "n">>

\* dict.get(key, default).
DictGet(dict, key, default) ==
    IF key \in DOMAIN dict.v THEN dict.v[key] ELSE default

NoOutcome == [validationResult |-> JNone, validationFailedReason |-> JNone]

\* Mutant: an absent validationResult counts as true.
ValidationResult_DefaultTrue(result) ==
    [validationResult |-> DictGet(result, validationResult, JLit("true")),
     validationFailedReason |->
         DictGet(result, validationFailedReason, JObj(EmptyMembers))]

\* Lines 83-86: the ValidationResult built from the parsed dict.
ValidationResult(result) ==
    [validationResult |-> DictGet(result, validationResult, JLit("false")),
     validationFailedReason |->
         DictGet(result, validationFailedReason, JObj(EmptyMembers))]

(***************************************************************************)
(* The inputs the model draws from.                                        *)
(***************************************************************************)

\* Concurrent dispatch/validate calls.
NumCalls == 2
CallIds == 1..NumCalls

\* Pieces of prose concatenated around a payload.
MaxProse == 1

Nonexistent == <<"n", "o", "n", "e", "x", "i", "s", "t", "e", "n", "t">>
GoogleUpper == <<"G", "O", "O", "G", "L", "E">>

\* Values of LLM_PROVIDER (line 90).
ProviderValues ==
    {Unset, SetTo(Ollama), SetTo(Google), SetTo(Anthropic), SetTo(Deepseek),
     SetTo(Openai), SetTo(Nonexistent), SetTo(GoogleUpper)}

\* Values of GOOGLE_API_KEY and ANTHROPIC_API_KEY (lines 171, 192); an empty
\* value is refused as an unset one is.
KeyValues == {Unset, SetTo(<<"k">>)}

\* Values of OLLAMA_MODEL_NAME (line 23).
ModelNames == {Unset, SetTo(<<"q">>)}

Environments ==
    [LLM_PROVIDER : ProviderValues, GOOGLE_API_KEY : KeyValues,
     ANTHROPIC_API_KEY : KeyValues, OLLAMA_MODEL_NAME : ModelNames]

DigitChars == <<"0", "1", "2", "3", "4", "5", "6", "7", "8", "9">>

RECURSIVE NatText(_)
NatText(n) ==
    IF n < 10 THEN <<DigitChars[n + 1]>>
    ELSE NatText(n \div 10) \o <<DigitChars[(n % 10) + 1]>>

LitText(name) ==
    CASE name = "true" -> <<"t", "r", "u", "e">>
      [] name = "false" -> <<"f", "a", "l", "s", "e">>
      [] name = "null" -> <<"n", "u", "l", "l">>

\* The separators of a serialization style: "compact" is
\* json.dumps(separators=(",", ":")), "pretty" breaks lines as indent does.
ItemSep(style) == IF style = "compact" THEN <<",">> ELSE <<",", "\n", " ">>
KeySep(style) == IF style = "compact" THEN <<":">> ELSE <<":", " ">>
Opening(style, bracket) == IF style = "compact" THEN <<bracket>> ELSE <<bracket, "\n", " ">>
Closing(style, bracket) == IF style = "compact" THEN <<bracket>> ELSE <<"\n", bracket>>

RECURSIVE Dumps(_, _)
RECURSIVE DumpMembers(_, _, _)
RECURSIVE DumpItems(_, _, _)

\* json.dumps of a value.
Dumps(val, style) ==
    CASE val.t = "lit" -> LitText(val.v)
      [] val.t = "num" -> NatText(val.v)
      [] val.t = "str" -> <<"\"">> \o val.v \o <<"\"">>
      [] val.t = "arr" ->
            IF Len(val.v) = 0 THEN <<"[", "]">>
            ELSE Opening(style, "[") \o DumpItems(val.v, 1, style) \o Closing(style, "]")
      [] val.t = "obj" ->
            IF DOMAIN val.v = {} THEN <<"{", "}">>
            ELSE Opening(style, "{") \o DumpMembers(val.v, DOMAIN val.v, style)
                     \o Closing(style, "}")

DumpMembers(members, keys, style) ==
    LET k == CHOOSE key \in keys : TRUE
        one == <<"\"">> \o k \o <<"\"">> \o KeySep(style) \o Dumps(members[k], style)
    IN IF keys = {k} THEN one
       ELSE one \o ItemSep(style) \o DumpMembers(members, keys \ {k}, style)

DumpItems(items, i, style) ==
    IF i = Len(items) THEN Dumps(items[i], style)
    ELSE Dumps(items[i], style) \o ItemSep(style) \o DumpItems(items, i + 1, style)

\* A one-member and a two-member dict.
Obj1(k, val) == JObj([key \in {k} |-> val])
Obj2(k1, v1, k2, v2) == JObj([key \in {k1, k2} |-> IF key = k1 THEN v1 ELSE v2])

Styles == {"compact", "pretty"}

\* The objects a backend is asked for: payloads whose strings hold a fence
\* marker or a brace, and a nested one.
Objects ==
    {JObj(EmptyMembers),
     Obj1(<<"a">>, JNum(1)),
     Obj1(<<"a">>, JStr(end_marker)),
     Obj1(<<"a">>, JStr(<<"}", "{">>)),
     Obj1(<<"a">>, Obj1(<<"b">>, JArr(<<JNum(1), JLit("true")>>)))}

\* Payloads that are no object.
OtherPayloads ==
    {<< >>, <<" ">>, <<"[", "1", "]">>, <<"1">>, <<"{">>, <<"\"", "}", "\"">>,
     <<"}", " ", "{">>}

Sure == <<"S", "u", "r", "e", "!", " ">>

ProsePieces == {Sure, start_marker, end_marker, <<"{">>, <<"}">>, <<"\n">>}

RECURSIVE ProseUpTo(_)
ProseUpTo(n) ==
    IF n = 0 THEN {<< >>}
    ELSE LET shorter == ProseUpTo(n - 1)
         IN shorter \cup {p \o q : p \in shorter, q \in ProsePieces}

Prose == ProseUpTo(MaxProse)

\* The text of a probe: prose, the payload (fenced or not), prose.
ProbeText(p1, fenced, body, p2) ==
    IF fenced THEN p1 \o start_marker \o body \o end_marker \o p2
    ELSE p1 \o body \o p2

NoResult == [ok |-> FALSE, value |-> << >>, error |-> "none"]
NoParse == [ok |-> FALSE, value |-> JNone, error |-> "none"]

\* A payload: its text and, for an object's serialization, the object.
Payloads ==
    {[text |-> Dumps(o, st), isObject |-> TRUE, obj |-> o] : o \in Objects, st \in Styles}
    \cup {[text |-> b, isObject |-> FALSE, obj |-> JNone] : b \in OtherPayloads}

ProbeInput(p1, fenced, payload, p2) ==
    [phase |-> "input", p1 |-> p1, fenced |-> fenced, body |-> payload.text, p2 |-> p2,
     isObject |-> payload.isObject, obj |-> payload.obj,
     raw |-> ProbeText(p1, fenced, payload.text, p2),
     sanitized |-> NoResult, parsed |-> NoParse]

ProbeInputs ==
    {ProbeInput(p1, f, payload, p2) :
        p1 \in Prose, f \in BOOLEAN, payload \in Payloads, p2 \in Prose}

NoPayload == [text |-> << >>, isObject |-> FALSE, obj |-> JNone]

ProbeOff == [ProbeInput(<< >>, FALSE, NoPayload, << >>) EXCEPT !.phase = "off"]

\* The replies a backend gives in the dispatch model.
validationFailed ==
    Obj2(validationResult, JLit("false"),
         validationFailedReason, Obj1(<<"n", "e", "x", "t">>, JStr(<<"q">>)))

Replies ==
    {Sure,
     <<"{", "}">>,
     Dumps(Obj2(<<"x">>, JNum(1), validationResult, JLit("true")), "compact"),
     Sure \o start_marker \o <<"\n">> \o Dumps(validationFailed, "compact")
          \o <<"\n">> \o end_marker,
     start_marker \o <<"[", "1", "]">> \o end_marker}

\* What the adapter makes of each reply (AdapterResult, tabulated).
ReplyResult == [r \in Replies |-> AdapterResult(r)]

(***************************************************************************)
(* The state.                                                              *)
(***************************************************************************)
VARIABLES
    module,     \* the module's import: "unloaded", "loaded" or "import_error"
    environ,    \* os.environ, which the program reads and never writes
    genai,      \* google.generativeai's process-wide configuration
    calls,      \* the dispatch/validate calls, by id
    probe       \* the sanitizer's direct caller: its input and what it got back

vars == <<module, environ, genai, calls, probe>>

Unconfigured == [api_key |-> << >>, by |-> 0]

\* A call that has not started.
IdleCall ==
    [pc |-> "idle", kind |-> "none", adapter |-> "none", sent |-> 0,
     key_used |-> << >>, key_by |-> 0, replied |-> FALSE, raw |-> << >>,
     result |-> JNone, outcome |-> NoOutcome, error |-> "none"]

Init ==
    /\ module = "unloaded"
    /\ environ \in Environments
    /\ genai = Unconfigured
    /\ calls = [c \in CallIds |-> IdleCall]
    /\ probe = ProbeOff

\* Lines 15-23: the import prints "Using LLM: " + os.environ.get("LLM_PROVIDER")
\* and, for the value "ollama", "..." + os.environ.get("OLLAMA_MODEL_NAME");
\* str + None raises TypeError and the import fails.
LoadModule ==
    /\ module = "unloaded"
    /\ module' = IF \/ ~environ.LLM_PROVIDER.set
                    \/ /\ environ.LLM_PROVIDER.value = Ollama
                       /\ ~environ.OLLAMA_MODEL_NAME.set
                 THEN "import_error"
                 ELSE "loaded"
    /\ UNCHANGED <<environ, genai, calls, probe>>

\* A call from its entry to its adapter's network call: agent_toolPlanner
\* picks the adapter (lines 90-103), the adapter checks its credential
\* (lines 171-173, 192-196: ValueError when missing) and prompt_llm_google
\* configures the SDK (line 175).
BeginCall(c, kind) ==
    /\ module = "loaded"
    /\ calls[c].pc = "idle"
    /\ LET adapter == SelectAdapter(environ.LLM_PROVIDER)
       IN IF CredentialMissing(adapter, environ)
          THEN /\ calls' = [calls EXCEPT ![c] =
                              [@ EXCEPT !.pc = "raised", !.kind = kind,
                                        !.adapter = adapter, !.error = "ValueError"]]
               /\ genai' = genai
          ELSE /\ calls' = [calls EXCEPT ![c] =
                              [@ EXCEPT !.pc = "calling", !.kind = kind,
                                        !.adapter = adapter]]
               /\ genai' = IF adapter = "prompt_llm_google"
                           THEN GenaiConfigure(genai, environ.GOOGLE_API_KEY.value, c)
                           ELSE genai
    /\ UNCHANGED <<module, environ, probe>>

\* Lines 88-103 as an activity of its own.
agent_toolPlanner(c) == BeginCall(c, "plan")

\* Lines 28-81: the validator builds its prompt and calls agent_toolPlanner.
agent_validatePrompt(c) == BeginCall(c, "validate")

\* The request a call sends: prompt_llm_google's client is built from the
\* SDK's process-wide configuration as it is at the call (line 182).
Sent(c) ==
    IF calls[c].adapter = "prompt_llm_google"
    THEN [calls[c] EXCEPT !.sent = @ + 1, !.key_used = genai.api_key, !.key_by = genai.by]
    ELSE [calls[c] EXCEPT !.sent = @ + 1]

\* The network call raises (lines 134, 161, 182, 200, 238): the exception
\* leaves the adapter, agent_toolPlanner and agent_validatePrompt.
ProviderFails(c) ==
    /\ calls[c].pc = "calling"
    /\ calls' = [calls EXCEPT ![c] =
                    [Sent(c) EXCEPT !.pc = "raised", !.error = "ProviderError"]]
    /\ UNCHANGED <<module, environ, genai, probe>>

\* The network call returns the text r: the adapter sanitizes and parses it
\* (lines 141-144), agent_toolPlanner returns the result, and
\* agent_validatePrompt maps it (lines 83-86; result.get on a value that is
\* no dict raises AttributeError): Finish.  A request without a key gets no
\* reply.
Finish(call, res) ==
    IF ~res.ok
    THEN [call EXCEPT !.pc = "raised", !.error = res.error]
    ELSE IF call.kind = "plan"
    THEN [call EXCEPT !.pc = "returned", !.result = res.value]
    ELSE IF res.value.t # "obj"
    THEN [call EXCEPT !.pc = "raised", !.error = "AttributeError"]
    ELSE [call EXCEPT !.pc = "returned", !.result = res.value,
                      !.outcome = ValidationResult(res.value)]

ProviderReplies(c, r) ==
    /\ calls[c].pc = "calling"
    /\ calls[c].adapter = "prompt_llm_google" => genai.api_key # << >>
    /\ calls' = [calls EXCEPT ![c] =
                    Finish([Sent(c) EXCEPT !.replied = TRUE, !.raw = r], ReplyResult[r])]
    /\ UNCHANGED <<module, environ, genai, probe>>

Next ==
    \/ LoadModule
    \/ \E c \in CallIds : agent_toolPlanner(c)
    \/ \E c \in CallIds : agent_validatePrompt(c)
    \/ \E c \in CallIds : ProviderFails(c)
    \/ \E c \in CallIds, r \in Replies : ProviderReplies(c, r)

Spec == Init /\ [][Next]_vars

(***************************************************************************)
(* The sanitizer and the re-parse called directly on a text.               *)
(***************************************************************************)

DefaultEnvironment ==
    [LLM_PROVIDER |-> SetTo(Openai), GOOGLE_API_KEY |-> Unset,
     ANTHROPIC_API_KEY |-> Unset, OLLAMA_MODEL_NAME |-> Unset]

InitSan ==
    /\ module = "loaded"
    /\ environ = DefaultEnvironment
    /\ genai = Unconfigured
    /\ calls = [c \in CallIds |-> IdleCall]
    /\ probe \in ProbeInputs

\* Lines 142, 166, 187, 218, 243: response_content = sanitize_json_response(...).
CallSanitize ==
    /\ probe.phase = "input"
    /\ probe' = [probe EXCEPT !.phase = "sanitized",
                              !.sanitized = sanitize_json_response(probe.raw)]
    /\ UNCHANGED <<module, environ, genai, calls>>

\* Lines 144, 168, 189, 220, 245: return parse_json_response(response_content).
CallParse ==
    /\ probe.phase = "sanitized"
    /\ probe.sanitized.ok
    /\ probe' = [probe EXCEPT !.phase = "parsed",
                              !.parsed = parse_json_response(probe.sanitized.value)]
    /\ UNCHANGED <<module, environ, genai, calls>>

NextSan == CallSanitize \/ CallParse

SpecSan == InitSan /\ [][NextSan]_vars

(***************************************************************************)
(* Properties of the sanitizer (checked under SpecSan).                    *)
(***************************************************************************)

\* The probe has called sanitize_json_response.
Sanitized == probe.phase \in {"sanitized", "parsed"}

\* C1: whenever sanitize_json_response returns, the returned text is a
\* contiguous part of the input and json.loads accepts it, and the
\* parse_json_response that follows returns too.
C1_ReturnedTextIsValidJson ==
    /\ (Sanitized /\ probe.sanitized.ok) =>
          /\ Contains(probe.raw, probe.sanitized.value)
          /\ JsonLoads(probe.sanitized.value).ok
          /\ probe.sanitized.error = "none"
    /\ probe.phase = "parsed" => probe.parsed.ok

\* A fenced text was sanitized to a shorter text and parsed again.
C1_Witness ==
    /\ probe.phase = "parsed"
    /\ probe.parsed.ok
    /\ probe.fenced
    /\ probe.p1 = Sure
    /\ Len(probe.sanitized.value) < Len(probe.raw)

\* The round trip of an object's serialization inside a fenced block.
RoundTrips ==
    /\ probe.sanitized.ok
    /\ probe.phase = "parsed" => (probe.parsed.ok /\ probe.parsed.value = probe.obj)

\* C2 as stated: for every object, serialization and prose, the fenced text
\* sanitizes to a text that parses to the object again.
C2_Original ==
    (Sanitized /\ probe.fenced /\ probe.isObject) => RoundTrips

\* C2 amended: the same, for prose before the block that holds no opening
\* marker and a serialization that holds no closing marker.
C2_FencedRoundTrip ==
    (/\ Sanitized /\ probe.fenced /\ probe.isObject
     /\ ~Contains(probe.p1, start_marker)
     /\ ~Contains(probe.body, end_marker)) => RoundTrips

\* A fenced object with braces in its string, after prose that holds a
\* closing marker and before prose that holds a brace, was recovered.
C2_Witness ==
    /\ probe.phase = "parsed"
    /\ probe.fenced /\ probe.isObject
    /\ probe.p1 = end_marker
    /\ probe.p2 = <<"}">>
    /\ probe.obj = Obj1(<<"a">>, JStr(<<"}", "{">>))
    /\ probe.parsed.value = probe.obj

\* The inclusive span from the first "{" to the last "}", trimmed.
BraceSpan(raw) ==
    Strip(Slice(raw, Find(raw, <<"{">>, 0), RFind(raw, <<"}">>) + 1))

\* The brace rule recovered the probe's object.
Recovered ==
    /\ probe.sanitized.ok
    /\ probe.sanitized.value = BraceSpan(probe.raw)
    /\ probe.phase = "parsed" => (probe.parsed.ok /\ probe.parsed.value = probe.obj)

\* C3 as stated: prose, one object's text, prose, no fence marker anywhere:
\* sanitize returns the span from the first "{" to the last "}", which parses
\* to the object.
C3_Original ==
    (/\ Sanitized /\ ~probe.fenced /\ probe.isObject
     /\ ~Contains(probe.raw, end_marker)) => Recovered

\* C3 amended: the same, when the prose before the object holds no "{" and
\* the prose after it no "}".
C3_BraceFallback ==
    (/\ Sanitized /\ ~probe.fenced /\ probe.isObject
     /\ ~Contains(probe.raw, end_marker)
     /\ ~Contains(probe.p1, <<"{">>)
     /\ ~Contains(probe.p2, <<"}">>)) => Recovered

\* An object between two pieces of prose was recovered by the brace rule.
C3_Witness ==
    /\ probe.phase = "parsed"
    /\ ~probe.fenced /\ probe.isObject
    /\ probe.p1 = Sure
    /\ probe.p2 = <<"{">>
    /\ probe.obj = Obj1(<<"a">>, JNum(1))
    /\ probe.parsed.value = probe.obj
    /\ probe.sanitized.value = BraceSpan(probe.raw)

\* The text holds no "{", or no "}" after its first "{".
NoBraceSpan(raw) ==
    \/ Find(raw, <<"{">>, 0) = -1
    \/ RFind(raw, <<"}">>) < Find(raw, <<"{">>, 0)

\* sanitize_json_response raised ValueError and returned no text.
Malformed ==
    /\ ~probe.sanitized.ok
    /\ probe.sanitized.error = "ValueError"
    /\ probe.sanitized.value = << >>

ClaimedFenced(raw) ==
    /\ Contains(raw, start_marker)
    /\ Find(raw, end_marker, Find(raw, start_marker, 0) + Len(start_marker)) # -1

ClaimedCandidate(raw) ==
    IF ClaimedFenced(raw)
    THEN Candidate("fenced",
             Strip(Slice(raw, Find(raw, start_marker, 0) + Len(start_marker),
                         Find(raw, end_marker, Find(raw, start_marker, 0) + Len(start_marker)))))
    ELSE IF ~NoBraceSpan(raw) THEN Candidate("braces", BraceSpan(raw))
    ELSE NoCandidate("braces")

ClaimedSanitize(raw) ==
    IF ClaimedCandidate(raw).none THEN Raise("ValueError")
    ELSE IF ClaimedCandidate(raw).text = << >> THEN Raise("ValueError")
    ELSE IF ~JsonLoads(ClaimedCandidate(raw).text).ok THEN Raise("ValueError")
    ELSE Return(ClaimedCandidate(raw).text)

\* C10: sanitize_json_response does what the single-shot, first-match-wins
\* precedence says: fenced rule iff an opening marker has a later closing
\* marker, else (also for an opening marker with no later closing marker)
\* the brace rule, and failure when the chosen candidate does not parse.
C10_Precedence ==
    Sanitized => probe.sanitized = ClaimedSanitize(probe.raw)

(***************************************************************************)
(* Properties of dispatch and validation (checked under Spec).             *)
(***************************************************************************)

\* C5: every value agent_toolPlanner returns is a JSON object at top level.
C5_ReturnedIsObject ==
    \A c \in CallIds : calls[c].pc = "returned" => calls[c].result.t = "obj"

\* The routing C6 states: the four names as written, anything else OpenAI.
StatedAdapter(LLM_PROVIDER) ==
    IF LLM_PROVIDER = SetTo(Ollama) THEN "prompt_llm_ollama"
    ELSE IF LLM_PROVIDER = SetTo(Google) THEN "prompt_llm_google"
    ELSE IF LLM_PROVIDER = SetTo(Anthropic) THEN "prompt_llm_anthropic"
    ELSE IF LLM_PROVIDER = SetTo(Deepseek) THEN "prompt_llm_deepseek"
    ELSE "prompt_llm_openai"

\* The routing of the lower-cased value.
FoldedAdapter(LLM_PROVIDER) ==
    IF ~LLM_PROVIDER.set THEN "prompt_llm_openai"
    ELSE StatedAdapter(SetTo(Lower(LLM_PROVIDER.value)))

FoldedAdapterOf == [v \in ProviderValues |-> FoldedAdapter(v)]

\* agent_toolPlanner's choice is the folded routing for every value.
SelectsFolded == \A v \in ProviderValues : SelectAdapter(v) = FoldedAdapterOf[v]

\* C6: the adapter is a total function of the LLM_PROVIDER value: the four
\* names as written go to their own adapter, every other value and an absent
\* one to OpenAI's (so an absent value leaves the program able to dispatch),
\* and a call sends its one request to that adapter.
C6_ProviderSelection ==
    /\ ~environ.LLM_PROVIDER.set => module # "import_error"
    /\ \A c \in CallIds :
          /\ calls[c].adapter # "none" =>
                calls[c].adapter = StatedAdapter(environ.LLM_PROVIDER)
          /\ calls[c].sent <= 1

\* With LLM_PROVIDER absent the import failed, and no call has started.
C6_Witness ==
    /\ ~environ.LLM_PROVIDER.set
    /\ module = "import_error"
    /\ \A c \in CallIds : calls[c].adapter = "none"

\* What holds of the selection: a call's adapter is the one of the
\* lower-cased value, no call starts unless the import succeeded (which a
\* set LLM_PROVIDER is needed for), and a call sends one request at most.
FoldedSelection ==
    /\ SelectsFolded
    /\ \A c \in CallIds :
          /\ calls[c].adapter # "none" =>
                /\ module = "loaded"
                /\ environ.LLM_PROVIDER.set
                /\ calls[c].adapter = FoldedAdapterOf[environ.LLM_PROVIDER]
          /\ calls[c].sent <= 1
          /\ calls[c].pc = "returned" => calls[c].sent = 1

\* With LLM_PROVIDER=GOOGLE a call got its reply from the Google adapter.
UpperCaseRouted ==
    \E c \in CallIds :
        /\ environ.LLM_PROVIDER = SetTo(GoogleUpper)
        /\ calls[c].adapter = "prompt_llm_google"
        /\ calls[c].pc = "returned"
        /\ calls[c].sent = 1

\* What sanitize_json_response makes of each reply.
SanitizedReply == [r \in Replies |-> sanitize_json_response(r)]

\* The value json.loads gives for each reply's sanitized text.
ParsedReply == [r \in Replies |-> JsonLoads(SanitizedReply[r].value).val]

\* C7: a call whose adapter or sanitizer failed ended in that failure, with
\* no result and no outcome, and no call sent a second request.
C7_FailuresPropagate ==
    \A c \in CallIds :
        /\ calls[c].sent <= 1
        /\ calls[c].pc = "raised" =>
              (calls[c].result = JNone /\ calls[c].outcome = NoOutcome)
        /\ (calls[c].sent = 1 /\ ~calls[c].replied) =>
              (calls[c].pc = "raised" /\ calls[c].error = "ProviderError")
        /\ (calls[c].replied /\ ~SanitizedReply[calls[c].raw].ok) =>
              (calls[c].pc = "raised" /\ calls[c].error = "ValueError")
        /\ calls[c].pc = "returned" =>
              (calls[c].replied /\ SanitizedReply[calls[c].raw].ok)

\* A validation whose backend replied "Sure! " ended in ValueError.
C7_Witness ==
    \E c \in CallIds :
        /\ calls[c].kind = "validate"
        /\ calls[c].replied /\ calls[c].raw = Sure
        /\ calls[c].pc = "raised" /\ calls[c].error = "ValueError"
        /\ calls[c].sent = 1

\* C8: the outcome of a validation takes validationResult and
\* validationFailedReason from the parsed object, false and {} standing in
\* for an absent key.
C8_DefaultFilling ==
    \A c \in CallIds :
        (calls[c].kind = "validate" /\ calls[c].pc = "returned") =>
            /\ calls[c].result = ParsedReply[calls[c].raw]
            /\ calls[c].result.t = "obj"
            /\ calls[c].outcome.validationResult =
                  IF validationResult \in DOMAIN calls[c].result.v
                  THEN calls[c].result.v[validationResult]
                  ELSE JLit("false")
            /\ calls[c].outcome.validationFailedReason =
                  IF validationFailedReason \in DOMAIN calls[c].result.v
                  THEN calls[c].result.v[validationFailedReason]
                  ELSE JObj(EmptyMembers)

\* A validation returned for the object {"x": 1, "validationResult": true}.
C8_Witness ==
    \E c \in CallIds :
        /\ calls[c].kind = "validate" /\ calls[c].pc = "returned"
        /\ DOMAIN calls[c].result.v = {<<"x">>, validationResult}
        /\ calls[c].outcome.validationResult = JLit("true")
        /\ calls[c].outcome.validationFailedReason = JObj(EmptyMembers)

Alone(kind, env, replied, raw) ==
    IF CredentialMissing(SelectAdapter(env.LLM_PROVIDER), env)
    THEN [pc |-> "raised", result |-> JNone, outcome |-> NoOutcome, error |-> "ValueError"]
    ELSE IF ~replied
    THEN [pc |-> "raised", result |-> JNone, outcome |-> NoOutcome, error |-> "ProviderError"]
    ELSE IF ~ReplyResult[raw].ok
    THEN [pc |-> "raised", result |-> JNone, outcome |-> NoOutcome,
          error |-> ReplyResult[raw].error]
    ELSE IF kind = "plan"
    THEN [pc |-> "returned", result |-> ReplyResult[raw].value, outcome |-> NoOutcome,
          error |-> "none"]
    ELSE IF ReplyResult[raw].value.t # "obj"
    THEN [pc |-> "raised", result |-> JNone, outcome |-> NoOutcome,
          error |-> "AttributeError"]
    ELSE [pc |-> "returned", result |-> ReplyResult[raw].value,
          outcome |-> ValidationResult(ReplyResult[raw].value), error |-> "none"]

=============================================================================
